---- MODULE Spec2Model ----
(***************************************************************************)
(* gdpsxyz: client library of the gdps.xyz HTTP API.                       *)
(*                                                                         *)
(* The model covers the session / authorization lifecycle of api.py (the   *)
(* module-level _authorization pointer, Session.init / refresh / close /   *)
(* info / sessions, the with-block protocol), the status-to-exception      *)
(* mapper _raise_for_errors, the _auth_required guard and the resource     *)
(* operations built on them.  Every operation issues at most one request;  *)
(* the remote server is the environment and answers each request with a    *)
(* status and a JSON envelope that does or does not carry "data".          *)
(***************************************************************************)
EXTENDS Integers, Sequences, FiniteSets, TLC

(***************************************************************************)
(* Bounds of the model.                                                    *)
(***************************************************************************)
MaxSessions == 2
MaxTokens == 3
MaxSupplied == 1

(***************************************************************************)
(* Python's None, for the _authorization pointer, tokens and ids.          *)
(***************************************************************************)
None == 0

SessionIds == 1..MaxSessions

(***************************************************************************)
(* The statuses the server answers with: success, the codes of the mapper's *)
(* table, 403 (call-site specific), and one 4xx and one 5xx outside it.    *)
(***************************************************************************)
Statuses == {200, 400, 401, 403, 404, 406, 409, 418, 429, 500, 502}

(***************************************************************************)
(* errors.XYZException.__init__(res, msg): reads res.status_code, so        *)
(* constructing any kind from something that is not a response (a str)     *)
(* raises AttributeError instead of yielding the exception.                *)
(***************************************************************************)
XYZException(kind, res) ==
    IF res = "response" THEN kind ELSE "AttributeError"

(***************************************************************************)
(* Variant of the table: the second NotAcceptable entry (409) is missing.  *)
(***************************************************************************)
raises_without_409 ==
    (400 :> XYZException("BadRequest", "response")) @@
    (401 :> XYZException("NotInitialized", "response")) @@
    (404 :> XYZException("NotFound", "response")) @@
    (406 :> XYZException("NotAcceptable", "response")) @@
    (429 :> XYZException("OutOfRateLimits", "response")) @@
    (500 :> XYZException("InternalServerError", "response"))

(***************************************************************************)
(* The table of _raise_for_errors (status -> kind).                        *)
(***************************************************************************)
raises ==
    (400 :> XYZException("BadRequest", "response")) @@
    (401 :> XYZException("NotInitialized", "response")) @@
    (404 :> XYZException("NotFound", "response")) @@
    (406 :> XYZException("NotAcceptable", "response")) @@
    (409 :> XYZException("NotAcceptable", "response")) @@
    (429 :> XYZException("OutOfRateLimits", "response")) @@
    (500 :> XYZException("InternalServerError", "response"))

(***************************************************************************)
(* _raise_for_errors(r, exc_of): the kind raised, "none" when it returns.  *)
(***************************************************************************)
_raise_for_errors(status, exc_of) ==
    IF status \in DOMAIN raises /\ status \notin exc_of
    THEN raises[status]
    ELSE "none"

VARIABLES
    session,         \* the Session objects held by the caller, by id
    _authorization,  \* the module-level active-session pointer (None or an id)
    srv,             \* the server's view of each session: open?, access token
    nextToken,       \* the next access token the server issues
    withSess,        \* the session whose with-block is being executed, or None
    lastInit,        \* history: the receiver of the latest init() call
    last             \* the latest call: what was called and what came of it

vars == <<session, _authorization, srv, nextToken, withSess, lastInit, last>>

(***************************************************************************)
(* A Session object not yet constructed.                                   *)
(***************************************************************************)
NoSession ==
    [id |-> None, token |-> None, refresh_token |-> None,
     token_expiration |-> None, refresh_token_expiration |-> None]

Exists(s) == session[s].id # None

(***************************************************************************)
(* Session.__init__(token_session): the fields are read off the payload.   *)
(***************************************************************************)
Session(token_session) ==
    [id |-> token_session.id,
     token |-> token_session.token,
     refresh_token |-> token_session.refreshToken,
     token_expiration |-> token_session.tokenExpiration,
     refresh_token_expiration |-> token_session.refreshTokenExpiration]

(***************************************************************************)
(* The server.  A session is open from the successful authorize that       *)
(* created it until a successful DELETE; its access token is valid while   *)
(* it is open and is replaced by a successful reauthorize.                 *)
(***************************************************************************)
TokenValid(tok) ==
    \E s \in SessionIds : srv[s].open /\ srv[s].token = tok

RefreshValid(rtok) ==
    \E s \in SessionIds : srv[s].open /\ srv[s].refresh = rtok

Closed(s) == Exists(s) /\ ~srv[s].open

(***************************************************************************)
(* The answers the server may give.  A request that carries a credential   *)
(* (bearer token or refresh token) the server no longer knows is answered  *)
(* 401; error answers carry no data; a success answer carries the          *)
(* payload of the endpoint ("shape") or no data.                           *)
(***************************************************************************)
Envelopes(shape) ==
    {[status |-> st, data |-> d] :
        st \in Statuses, d \in {shape, "none"}}

Answers(accepted, shape) ==
    IF ~accepted
    THEN {[status |-> 401, data |-> "none"]}
    ELSE {r \in Envelopes(shape) : r.status >= 400 => r.data = "none"}

(***************************************************************************)
(* The record of a call.                                                   *)
(***************************************************************************)
Call(op, sess, arg) ==
    [op |-> op, sess |-> sess, auth |-> _authorization, arg |-> arg,
     kw |-> <<>>, body |-> <<>>,
     sent |-> FALSE, bearer |-> None, status |-> 0, data |-> "none",
     exc |-> "none", ret |-> "None", closes |-> 0, exc_type |-> "none"]

Raise(c, kind) == [c EXCEPT !.exc = kind]

Return(c, value) == [c EXCEPT !.ret = value]

Request(c, bearer, r) ==
    [c EXCEPT !.sent = TRUE, !.bearer = bearer, !.status = r.status,
              !.data = r.data]

(***************************************************************************)
(* The answers to a call: none when the call fails before its request      *)
(* (probe is the call evaluated without an answer), otherwise what the     *)
(* server may answer to the credential the request carries.                *)
(***************************************************************************)
NoAnswer == [status |-> 0, data |-> "none"]

AnswersTo(probe, shape) ==
    IF ~probe.sent
    THEN {NoAnswer}
    ELSE Answers(probe.bearer = None \/ TokenValid(probe.bearer), shape)

(***************************************************************************)
(* Variant of init: publishes only when no session is active yet.          *)
(***************************************************************************)
init_first_wins(s) == IF _authorization = None THEN s ELSE _authorization

(***************************************************************************)
(* Session.init(): _authorization = self.                                  *)
(***************************************************************************)
init(s) == s

Init ==
    /\ session = [s \in SessionIds |-> NoSession]
    /\ _authorization = None
    /\ srv = [s \in SessionIds |-> [open |-> FALSE, token |-> None, refresh |-> None]]
    /\ nextToken = 1
    /\ withSess = None
    /\ lastInit = None
    /\ last = Call("idle", None, 0)

(***************************************************************************)
(* The payload of a successful authorize: a fresh session id and token.    *)
(***************************************************************************)
NewSessionId ==
    CHOOSE s \in SessionIds : ~Exists(s) /\ \A t \in SessionIds : ~Exists(t) => s <= t

HasRoom ==
    /\ \E s \in SessionIds : ~Exists(s)
    /\ nextToken <= MaxTokens

TokenSession(sid, tok) ==
    [id |-> sid, token |-> tok, refreshToken |-> 0 - sid,
     tokenExpiration |-> tok, refreshTokenExpiration |-> sid]

AuthorizeAnswers ==
    {r \in Answers(TRUE, "dict") : r.data = "dict" => HasRoom}

(***************************************************************************)
(* Variant of authorize: also publishes the session it returns.            *)
(***************************************************************************)
authorize_publishing(email, password, r) ==
    LET c == [Call("authorize", None, 0) EXCEPT !.kw = <<email, password>>]
        q == Request(c, None, r)
    IN  IF email = "" \/ password = "" \/ r.status >= 400 \/ r.data # "dict"
        THEN [res |-> Raise(c, "AssertionError"), new |-> NoSession,
              auth |-> _authorization]
        ELSE [res |-> Return(q, "Session"),
              new |-> Session(TokenSession(NewSessionId, nextToken)),
              auth |-> NewSessionId]

(***************************************************************************)
(* authorize(email, password): the outcome and the Session it returns.     *)
(***************************************************************************)
authorize(email, password, r) ==
    LET c == [Call("authorize", None, 0) EXCEPT !.kw = <<email, password>>]
        q == Request(c, None, r)
        e == IF r.status >= 400 THEN _raise_for_errors(r.status, {}) ELSE "none"
    IN  IF email = "" \/ password = ""
        THEN [res |-> Raise(c, "AssertionError"), new |-> NoSession,
              auth |-> _authorization]
        ELSE IF e # "none"
        THEN [res |-> Raise(q, e), new |-> NoSession, auth |-> _authorization]
        ELSE IF r.status >= 400 /\ r.status = 403
        THEN [res |-> Raise(q, XYZException("AuthorizationError", "response")),
              new |-> NoSession, auth |-> _authorization]
        ELSE IF r.data # "dict"
        THEN [res |-> Raise(q, "AttributeError"), new |-> NoSession,
              auth |-> _authorization]
        ELSE [res |-> Return(q, "Session"),
              new |-> Session(TokenSession(NewSessionId, nextToken)),
              auth |-> _authorization]

Authorize ==
    \E email \in {"", "s"}, password \in {"", "s"}, r \in AuthorizeAnswers :
        LET eff == authorize(email, password, r)
            created == eff.res.sent /\ r.data = "dict"
        IN  /\ last' = eff.res
            /\ _authorization' = eff.auth
            /\ session' = IF eff.new.id # None
                          THEN [session EXCEPT ![eff.new.id] = eff.new]
                          ELSE session
            /\ srv' = IF created
                      THEN [srv EXCEPT ![NewSessionId] =
                               [open |-> TRUE, token |-> nextToken,
                                refresh |-> 0 - NewSessionId]]
                      ELSE srv
            /\ nextToken' = IF created THEN nextToken + 1 ELSE nextToken
            /\ UNCHANGED <<withSess, lastInit>>

SessionInit ==
    \E s \in SessionIds :
        /\ Exists(s)
        /\ _authorization' = init(s)
        /\ lastInit' = s
        /\ last' = Call("init", s, 0)
        /\ UNCHANGED <<session, srv, nextToken, withSess>>

(***************************************************************************)
(* Variant of refresh: 401 is left to the generic mapper.                  *)
(***************************************************************************)
refresh_generic_401(s, r, newtok) ==
    LET q == Request(Call("refresh", s, 0), None, r)
        e == _raise_for_errors(r.status, {})
    IN  IF r.data = "dict"
        THEN [res |-> q, token |-> newtok,
              auth |-> IF _authorization # None THEN init(s) ELSE _authorization,
              inited |-> _authorization # None]
        ELSE IF r.status >= 400 /\ e # "none"
        THEN [res |-> Raise(q, e), token |-> session[s].token,
              auth |-> _authorization, inited |-> FALSE]
        ELSE [res |-> q, token |-> session[s].token,
              auth |-> _authorization, inited |-> FALSE]

(***************************************************************************)
(* Variant of refresh: the token is read off the answer before the answer  *)
(* is examined, so an answer without a payload drops it.                   *)
(***************************************************************************)
refresh_dropping_token(s, r, newtok) ==
    LET q == Request(Call("refresh", s, 0), None, r)
        e == _raise_for_errors(r.status, {401})
    IN  IF r.data = "dict"
        THEN [res |-> q, token |-> newtok,
              auth |-> IF _authorization # None THEN init(s) ELSE _authorization,
              inited |-> _authorization # None]
        ELSE IF r.status >= 400 /\ e # "none"
        THEN [res |-> Raise(q, e), token |-> None,
              auth |-> _authorization, inited |-> FALSE]
        ELSE IF r.status >= 400 /\ r.status = 401
        THEN [res |-> Raise(q, XYZException("InvalidToken", "response")),
              token |-> None,
              auth |-> _authorization, inited |-> FALSE]
        ELSE [res |-> q, token |-> None,
              auth |-> _authorization, inited |-> FALSE]

(***************************************************************************)
(* Variant of refresh: the token of the payload is not stored.             *)
(***************************************************************************)
refresh_keeping_token(s, r, newtok) ==
    LET q == Request(Call("refresh", s, 0), None, r)
        e == _raise_for_errors(r.status, {401})
    IN  IF r.data = "dict"
        THEN [res |-> q, token |-> session[s].token,
              auth |-> IF _authorization # None THEN init(s) ELSE _authorization,
              inited |-> _authorization # None]
        ELSE IF r.status >= 400 /\ e # "none"
        THEN [res |-> Raise(q, e), token |-> session[s].token,
              auth |-> _authorization, inited |-> FALSE]
        ELSE IF r.status >= 400 /\ r.status = 401
        THEN [res |-> Raise(q, XYZException("InvalidToken", "response")),
              token |-> session[s].token,
              auth |-> _authorization, inited |-> FALSE]
        ELSE [res |-> q, token |-> session[s].token,
              auth |-> _authorization, inited |-> FALSE]

(***************************************************************************)
(* Session.refresh(): the outcome, the receiver's token afterwards, the    *)
(* pointer afterwards, and whether it called init().                       *)
(***************************************************************************)
refresh(s, r, newtok) ==
    LET q == Request(Call("refresh", s, 0), None, r)
        e == _raise_for_errors(r.status, {401})
    IN  IF r.data = "dict"
        THEN [res |-> q, token |-> newtok,
              auth |-> IF _authorization # None THEN init(s) ELSE _authorization,
              inited |-> _authorization # None]
        ELSE IF r.status >= 400 /\ e # "none"
        THEN [res |-> Raise(q, e), token |-> session[s].token,
              auth |-> _authorization, inited |-> FALSE]
        ELSE IF r.status >= 400 /\ r.status = 401
        THEN [res |-> Raise(q, XYZException("InvalidToken", "response")),
              token |-> session[s].token,
              auth |-> _authorization, inited |-> FALSE]
        ELSE [res |-> q, token |-> session[s].token,
              auth |-> _authorization, inited |-> FALSE]

RefreshAnswers(s) ==
    {r \in Answers(RefreshValid(session[s].refresh_token), "dict") :
        r.data = "dict" => nextToken <= MaxTokens}

SessionRefresh ==
    \E s \in SessionIds :
        /\ Exists(s)
        /\ \E r \in RefreshAnswers(s) :
            LET eff == refresh(s, r, nextToken)
                issued == r.data = "dict"
            IN  /\ last' = eff.res
                /\ session' = [session EXCEPT ![s].token = eff.token]
                /\ _authorization' = eff.auth
                /\ lastInit' = IF eff.inited THEN s ELSE lastInit
                /\ srv' = IF issued THEN [srv EXCEPT ![s].token = nextToken] ELSE srv
                /\ nextToken' = IF issued THEN nextToken + 1 ELSE nextToken
                /\ UNCHANGED withSess

(***************************************************************************)
(* Variant of close: the request carries the active session's token.       *)
(***************************************************************************)
close_with_active_token(s, r) ==
    LET c == [Call("close", s, 0) EXCEPT !.closes = 1]
        q == Request(c, IF _authorization = None THEN None
                        ELSE session[_authorization].token, r)
        e == _raise_for_errors(r.status, {401})
    IN  IF r.status >= 400 /\ e # "none"
        THEN Raise(q, e)
        ELSE IF r.status >= 400 /\ r.status = 401
        THEN Raise(q, XYZException("InvalidToken", "response"))
        ELSE q

(***************************************************************************)
(* Variant of close: 401 is left to the generic mapper.                    *)
(***************************************************************************)
close_generic_401(s, r) ==
    LET c == [Call("close", s, 0) EXCEPT !.closes = 1]
        q == Request(c, session[s].token, r)
        e == _raise_for_errors(r.status, {})
    IN  IF r.status >= 400 /\ e # "none"
        THEN Raise(q, e)
        ELSE q

(***************************************************************************)
(* Session.close(): one DELETE carrying the receiver's token.              *)
(***************************************************************************)
close(s, r) ==
    LET c == [Call("close", s, 0) EXCEPT !.closes = 1]
        q == Request(c, session[s].token, r)
        e == _raise_for_errors(r.status, {401})
    IN  IF r.status >= 400 /\ e # "none"
        THEN Raise(q, e)
        ELSE IF r.status >= 400 /\ r.status = 401
        THEN Raise(q, XYZException("InvalidToken", "response"))
        ELSE q

(***************************************************************************)
(* Variant of close's local effect: the receiver's token is dropped and    *)
(* the pointer is unset when it refers to the receiver.                    *)
(***************************************************************************)
close_locals_clearing(s) ==
    [session |-> [session EXCEPT ![s].token = None],
     auth |-> IF _authorization = s THEN None ELSE _authorization]

(***************************************************************************)
(* What close() leaves of the client's own state: the sessions' fields and *)
(* the pointer.  The method assigns to neither.                            *)
(***************************************************************************)
close_locals(s) ==
    [session |-> session, auth |-> _authorization]

(***************************************************************************)
(* The server deletes the session when it answers the DELETE with success. *)
(***************************************************************************)
Deleted(s, res) ==
    IF res.sent /\ res.status < 400
    THEN [srv EXCEPT ![s].open = FALSE]
    ELSE srv

SessionClose ==
    \E s \in SessionIds :
        /\ Exists(s)
        /\ \E r \in Answers(TokenValid(session[s].token), "none") :
            /\ last' = close(s, r)
            /\ srv' = Deleted(s, close(s, r))
            /\ session' = close_locals(s).session
            /\ _authorization' = close_locals(s).auth
            /\ UNCHANGED <<nextToken, withSess, lastInit>>

(***************************************************************************)
(* Session.info (property) and Session.sessions(page).                     *)
(***************************************************************************)
info(s, r) ==
    LET q == Request(Call("info", s, 0), session[s].token, r)
        e == _raise_for_errors(r.status, {401, 404})
    IN  IF r.status >= 400 /\ e # "none"
        THEN Raise(q, e)
        ELSE IF r.status >= 400 /\ r.status = 401
        THEN Raise(q, XYZException("InvalidToken", "response"))
        ELSE IF r.status >= 400 /\ r.status = 404
        THEN Raise(q, XYZException("NotFound", "response"))
        ELSE IF r.data # "dict"
        THEN Raise(q, "AttributeError")
        ELSE Return(q, "SessionInfo")

SessionGetInfo ==
    \E s \in SessionIds :
        /\ Exists(s)
        /\ \E r \in Answers(TokenValid(session[s].token), "dict") :
            last' = info(s, r)
        /\ UNCHANGED <<session, _authorization, srv, nextToken, withSess, lastInit>>

Pages == -1..2

sessions(s, page, r) ==
    LET c == Call("sessions", s, page)
        q == Request(c, session[s].token, r)
        e == _raise_for_errors(r.status, {})
    IN  IF page = 0
        THEN Raise(c, "AssertionError")
        ELSE IF r.status >= 400 /\ e # "none"
        THEN Raise(q, e)
        ELSE IF r.data # "list"
        THEN Raise(q, "TypeError")
        ELSE Return(q, "list")

SessionSessions ==
    \E s \in SessionIds, page \in Pages :
        /\ Exists(s)
        /\ \E r \in AnswersTo(sessions(s, page, NoAnswer), "list") :
            last' = sessions(s, page, r)
        /\ UNCHANGED <<session, _authorization, srv, nextToken, withSess, lastInit>>

(***************************************************************************)
(* The with-block: __enter__ calls init(); __exit__ calls close() only     *)
(* when the block raised nothing, and returns False either way, so an      *)
(* exception of the block propagates.                                      *)
(***************************************************************************)
__enter__(s) == init(s)

(***************************************************************************)
(* Variant of __exit__: closes on every exit.                              *)
(***************************************************************************)
__exit__closing_always(s, exc_type, r) ==
    [close(s, r) EXCEPT !.op = "__exit__", !.exc_type = exc_type,
                        !.exc = IF exc_type # "none" THEN exc_type ELSE @]

__exit__(s, exc_type, r) ==
    IF exc_type = "none"
    THEN [close(s, r) EXCEPT !.op = "__exit__"]
    ELSE [Call("__exit__", s, 0) EXCEPT !.exc = exc_type, !.exc_type = exc_type]

WithEnter ==
    \E s \in SessionIds :
        /\ Exists(s)
        /\ withSess = None
        /\ _authorization' = __enter__(s)
        /\ lastInit' = s
        /\ withSess' = s
        /\ last' = Call("__enter__", s, 0)
        /\ UNCHANGED <<session, srv, nextToken>>

(***************************************************************************)
(* Calls are synchronous: the caller makes one call, gets its outcome, and *)
(* only then goes on.  Idle: no outcome is pending.  Resume: the caller    *)
(* takes the return value, or catches the exception, and goes on.          *)
(***************************************************************************)
Idle == last.op = "idle"

Resume ==
    /\ ~Idle
    /\ last' = Call("idle", None, 0)
    /\ UNCHANGED <<session, _authorization, srv, nextToken, withSess, lastInit>>

(***************************************************************************)
(* How the with-block can end: by the exception its last call raised, if   *)
(* the block does not catch it; otherwise normally, or by an exception     *)
(* the block's own code raises.                                            *)
(***************************************************************************)
BlockEndings ==
    IF Idle THEN {"none", "ValueError"} ELSE {last.exc} \ {"none"}

WithExit ==
    /\ withSess # None
    /\ \E exc_type \in BlockEndings :
          \E r \in AnswersTo(__exit__(withSess, exc_type, NoAnswer), "none") :
              /\ last' = __exit__(withSess, exc_type, r)
              /\ srv' = Deleted(withSess, __exit__(withSess, exc_type, r))
              /\ session' = IF exc_type = "none"
                            THEN close_locals(withSess).session ELSE session
              /\ _authorization' = IF exc_type = "none"
                                   THEN close_locals(withSess).auth
                                   ELSE _authorization
    /\ withSess' = None
    /\ UNCHANGED <<nextToken, lastInit>>

(***************************************************************************)
(* _auth_required: the exception the guard raises, "none" when it lets the *)
(* call through.  The guard builds NotInitialized from a message alone.    *)
(***************************************************************************)
_auth_required(a) ==
    IF a # None THEN "none" ELSE XYZException("NotInitialized", "str")

(***************************************************************************)
(* Variant of the header: a missing session yields the text 'None'.        *)
(***************************************************************************)
BearerOf_lenient(a) ==
    IF a = None
    THEN [exc |-> "none", token |-> None]
    ELSE [exc |-> "none", token |-> session[a].token]

(***************************************************************************)
(* f'Bearer {_authorization.token}': reading .token of None raises.        *)
(***************************************************************************)
BearerOf(a) ==
    IF a = None
    THEN [exc |-> "AttributeError", token |-> None]
    ELSE [exc |-> "none", token |-> session[a].token]

(***************************************************************************)
(* What an operation makes of the envelope's data.                         *)
(*   "nothing": the operation returns nothing                              *)
(*   "data":    it returns r.json().get('data') as it is                    *)
(*   "list":    it builds a list from the data (None is not iterable)      *)
(*   "dict":    it returns an object when the data is a dict, else None    *)
(***************************************************************************)
Decode(q, how, data, cls) ==
    CASE how = "nothing" -> q
      [] how = "data" -> IF data = "none" THEN q ELSE Return(q, data)
      [] how = "list" -> IF data = "list" THEN Return(q, "list")
                         ELSE Raise(q, "TypeError")
      [] how = "dict" -> IF data = "dict" THEN Return(q, cls) ELSE q

(***************************************************************************)
(* Variant of the common shape: no call site handles 403 itself.           *)
(***************************************************************************)
Perform_without_403(c, guarded, argExc, r, on403, how, cls) ==
    LET g == IF guarded THEN _auth_required(_authorization) ELSE "none"
        h == BearerOf(_authorization)
        q == Request(c, h.token, r)
        e == _raise_for_errors(r.status, {})
    IN  IF g # "none" THEN Raise(c, g)
        ELSE IF argExc # "none" THEN Raise(c, argExc)
        ELSE IF h.exc # "none" THEN Raise(c, h.exc)
        ELSE IF r.status >= 400 /\ e # "none" THEN Raise(q, e)
        ELSE Decode(q, how, r.data, cls)

(***************************************************************************)
(* The common shape of the operations that carry the active session's      *)
(* token: guard (when wrapped by _auth_required), argument assertions,     *)
(* header, request, _raise_for_errors, the call site's own 403, decoding.  *)
(***************************************************************************)
Perform(c, guarded, argExc, r, on403, how, cls) ==
    LET g == IF guarded THEN _auth_required(_authorization) ELSE "none"
        h == BearerOf(_authorization)
        q == Request(c, h.token, r)
        e == _raise_for_errors(r.status, {})
    IN  IF g # "none" THEN Raise(c, g)
        ELSE IF argExc # "none" THEN Raise(c, argExc)
        ELSE IF h.exc # "none" THEN Raise(c, h.exc)
        ELSE IF r.status >= 400 /\ e # "none" THEN Raise(q, e)
        ELSE IF r.status >= 400 /\ r.status = 403 /\ on403 # "none"
        THEN Raise(q, XYZException(on403, "response"))
        ELSE Decode(q, how, r.data, cls)

(***************************************************************************)
(* assert x, '...': a falsy argument fails the assertion.                  *)
(***************************************************************************)
AssertInt(x) == IF x = 0 THEN "AssertionError" ELSE "none"

AssertText(x) == IF x = "" THEN "AssertionError" ELSE "none"

AssertAll(xs) ==
    IF \E i \in DOMAIN xs : xs[i] = "" THEN "AssertionError" ELSE "none"

VoteTypes == -1..3

Texts == {"", "s"}

ActiveCall(op, arg) == Call(op, _authorization, arg)

TextCall(op, text) == [ActiveCall(op, 0) EXCEPT !.kw = <<text>>]

Frame == UNCHANGED <<session, _authorization, srv, nextToken, withSess, lastInit>>

(***************************************************************************)
(* me()                                                                    *)
(***************************************************************************)
me(r) == Perform(ActiveCall("me", 0), TRUE, "none", r, "none", "dict", "MyAccount")

Me ==
    /\ \E r \in AnswersTo(me(NoAnswer), "dict") : last' = me(r)
    /\ Frame

(***************************************************************************)
(* MyAccount.gdpslist(page), MyAccount.delete()                            *)
(***************************************************************************)
MyAccount_gdpslist(page, r) ==
    Perform(ActiveCall("MyAccount.gdpslist", page), TRUE, AssertInt(page), r,
            "none", "list", "list")

MyAccountGdpslist ==
    /\ \E page \in Pages :
          \E r \in AnswersTo(MyAccount_gdpslist(page, NoAnswer), "list") :
              last' = MyAccount_gdpslist(page, r)
    /\ Frame

MyAccount_delete(r) ==
    Perform(ActiveCall("MyAccount.delete", 0), TRUE, "none", r,
            "AccountDeletionError", "nothing", "None")

MyAccountDelete ==
    /\ \E r \in AnswersTo(MyAccount_delete(NoAnswer), "none") :
          last' = MyAccount_delete(r)
    /\ Frame

(***************************************************************************)
(* Comment.update(text) is not wrapped by _auth_required.                  *)
(***************************************************************************)
Comment_update(text, r) ==
    Perform(TextCall("Comment.update", text), FALSE, AssertText(text), r,
            "none", "nothing", "None")

CommentUpdate ==
    /\ \E text \in Texts :
          \E r \in AnswersTo(Comment_update(text, NoAnswer), "none") :
              last' = Comment_update(text, r)
    /\ Frame

Comment_delete(r) ==
    Perform(ActiveCall("Comment.delete", 0), TRUE, "none", r,
            "none", "nothing", "None")

CommentDelete ==
    /\ \E r \in AnswersTo(Comment_delete(NoAnswer), "none") :
          last' = Comment_delete(r)
    /\ Frame

Comment_vote(vote_type, r) ==
    Perform(ActiveCall("Comment.vote", vote_type), TRUE, AssertInt(vote_type), r,
            "none", "nothing", "None")

CommentVote ==
    /\ \E vote_type \in VoteTypes :
          \E r \in AnswersTo(Comment_vote(vote_type, NoAnswer), "none") :
              last' = Comment_vote(vote_type, r)
    /\ Frame

Comment_unvote(r) ==
    Perform(ActiveCall("Comment.unvote", 0), TRUE, "none", r,
            "NotFound", "nothing", "None")

CommentUnvote ==
    /\ \E r \in AnswersTo(Comment_unvote(NoAnswer), "none") :
          last' = Comment_unvote(r)
    /\ Frame

(***************************************************************************)
(* GDPS.create_comment(text), delete(), vote(vote_type), unvote()          *)
(***************************************************************************)
GDPS_create_comment(text, r) ==
    Perform(TextCall("GDPS.create_comment", text), TRUE, AssertText(text), r,
            "none", "data", "None")

GDPSCreateComment ==
    /\ \E text \in Texts :
          \E r \in AnswersTo(GDPS_create_comment(text, NoAnswer), "id") :
              last' = GDPS_create_comment(text, r)
    /\ Frame

GDPS_delete(r) ==
    Perform(ActiveCall("GDPS.delete", 0), TRUE, "none", r,
            "none", "nothing", "None")

GDPSDelete ==
    /\ \E r \in AnswersTo(GDPS_delete(NoAnswer), "none") :
          last' = GDPS_delete(r)
    /\ Frame

GDPS_vote(vote_type, r) ==
    Perform(ActiveCall("GDPS.vote", vote_type), TRUE, AssertInt(vote_type), r,
            "none", "nothing", "None")

GDPSVote ==
    /\ \E vote_type \in VoteTypes :
          \E r \in AnswersTo(GDPS_vote(vote_type, NoAnswer), "none") :
              last' = GDPS_vote(vote_type, r)
    /\ Frame

GDPS_unvote(r) ==
    Perform(ActiveCall("GDPS.unvote", 0), TRUE, "none", r,
            "NotFound", "nothing", "None")

GDPSUnvote ==
    /\ \E r \in AnswersTo(GDPS_unvote(NoAnswer), "none") :
          last' = GDPS_unvote(r)
    /\ Frame

(***************************************************************************)
(* Keyword arguments of the update operations: omitted (None), an empty    *)
(* string, or a non-empty string.  The caller supplies at most MaxSupplied *)
(* of them.                                                                *)
(***************************************************************************)
KwValues == {"None", "", "s"}

KwInputs(n) ==
    {k \in [1..n -> KwValues] :
        Cardinality({i \in 1..n : k[i] # "None"}) <= MaxSupplied}

(***************************************************************************)
(* The loop of MyAccount.update and GDPS.update over the arguments:        *)
(*     if i: (assertions)  else: del body[next(islice(body, i, None))]     *)
(* A non-empty string passes both assertions.  For None, islice(body,      *)
(* None, None) starts at the first key still in body, and that key is      *)
(* deleted (next() of an exhausted iterator raises StopIteration); an      *)
(* empty string is no valid islice index (ValueError).                     *)
(***************************************************************************)
RECURSIVE update_loop(_, _)
update_loop(body, args) ==
    IF args = <<>>
    THEN [exc |-> "none", body |-> body]
    ELSE IF Head(args) \notin {"None", ""}
    THEN update_loop(body, Tail(args))
    ELSE IF Head(args) = ""
    THEN [exc |-> "ValueError", body |-> body]
    ELSE IF body = <<>>
    THEN [exc |-> "StopIteration", body |-> body]
    ELSE update_loop(Tail(body), Tail(args))

(***************************************************************************)
(* MyAccount.update, keywords email, password, avatar_url, username        *)
(***************************************************************************)
MyAccount_update(kw, r) ==
    LET body == <<<<"email", kw[1]>>, <<"password", kw[2]>>, <<"username", kw[4]>>>>
        loop == update_loop(body, kw)
        c == [ActiveCall("MyAccount.update", 0) EXCEPT !.kw = kw, !.body = loop.body]
    IN  Perform(c, TRUE, loop.exc, r, "none", "nothing", "None")

AccountKwInputs == KwInputs(4)

MyAccountUpdate ==
    /\ \E kw \in AccountKwInputs :
          \E r \in AnswersTo(MyAccount_update(kw, NoAnswer), "none") :
              last' = MyAccount_update(kw, r)
    /\ Frame

(***************************************************************************)
(* GDPS.update, keywords name, desc, link, dashboard_link,                 *)
(* download_windows, download_android, locale, avatar_url, background_url  *)
(***************************************************************************)
GDPSUpdateKeys ==
    <<"name", "desc", "link", "dashboardLink", "downloadWindowsLink",
      "downloadAndroidLink", "locale", "avatarUrl", "backgroundUrl">>

GDPS_update(kw, r) ==
    LET body == [i \in 1..Len(GDPSUpdateKeys) |-> <<GDPSUpdateKeys[i], kw[i]>>]
        loop == update_loop(body, kw)
        c == [ActiveCall("GDPS.update", 0) EXCEPT !.kw = kw, !.body = loop.body]
    IN  Perform(c, TRUE, loop.exc, r, "none", "nothing", "None")

GDPSKwInputs == KwInputs(Len(GDPSUpdateKeys))

GDPSUpdate ==
    /\ \E kw \in GDPSKwInputs :
          \E r \in AnswersTo(GDPS_update(kw, NoAnswer), "none") :
              last' = GDPS_update(kw, r)
    /\ Frame

(***************************************************************************)
(* create_gdps(name, desc, link), keywords avatar_url, background_url      *)
(***************************************************************************)
create_gdps(name, desc, link, avatar_url, background_url, r) ==
    LET kw == <<name, desc, link, avatar_url, background_url>>
        body == <<<<"name", name>>, <<"desc", desc>>, <<"link", link>>>>
                \o (IF avatar_url \notin {"None", ""}
                    THEN <<<<"avatarUrl", avatar_url>>>> ELSE <<>>)
                \o (IF background_url \notin {"None", ""}
                    THEN <<<<"backgroundUrl", background_url>>>> ELSE <<>>)
        c == [ActiveCall("create_gdps", 0) EXCEPT !.kw = kw, !.body = body]
    IN  Perform(c, TRUE, AssertAll(<<name, desc, link>>), r, "none", "data", "None")

CreateGdps ==
    /\ \E name \in Texts, desc \in Texts, link \in Texts,
          avatar_url \in KwValues, background_url \in {"None", "s"} :
          \E r \in AnswersTo(
                 create_gdps(name, desc, link, avatar_url, background_url, NoAnswer),
                 "id") :
              last' = create_gdps(name, desc, link, avatar_url, background_url, r)
    /\ Frame

(***************************************************************************)
(* The operations that need no session.                                    *)
(***************************************************************************)
Ids == -1..2

(***************************************************************************)
(* get_account, get_gdps, GDPS.get_comment: only 500 is raised; the        *)
(* object is returned when the data is a dict, None otherwise.             *)
(***************************************************************************)
FetchById(op, id, r, cls) ==
    LET c == Call(op, None, id)
        q == Request(c, None, r)
    IN  IF AssertInt(id) # "none" THEN Raise(c, AssertInt(id))
        ELSE IF r.status = 500
        THEN Raise(q, XYZException("InternalServerError", "response"))
        ELSE Decode(q, "dict", r.data, cls)

get_account(account_id, r) == FetchById("get_account", account_id, r, "Account")

GetAccount ==
    /\ \E id \in Ids :
          \E r \in AnswersTo(get_account(id, NoAnswer), "dict") :
              last' = get_account(id, r)
    /\ Frame

get_gdps(gdps_id, r) == FetchById("get_gdps", gdps_id, r, "GDPS")

GetGdps ==
    /\ \E id \in Ids :
          \E r \in AnswersTo(get_gdps(id, NoAnswer), "dict") :
              last' = get_gdps(id, r)
    /\ Frame

GDPS_get_comment(comment_id, r) ==
    FetchById("GDPS.get_comment", comment_id, r, "Comment")

GDPSGetComment ==
    /\ \E id \in Ids :
          \E r \in AnswersTo(GDPS_get_comment(id, NoAnswer), "dict") :
              last' = GDPS_get_comment(id, r)
    /\ Frame

(***************************************************************************)
(* GDPS.get_comment_page, search_for_gdps, top: lists, through the mapper. *)
(***************************************************************************)
ListOf(c, argExc, r) ==
    LET q == Request(c, None, r)
        e == _raise_for_errors(r.status, {})
    IN  IF argExc # "none" THEN Raise(c, argExc)
        ELSE IF r.status >= 400 /\ e # "none" THEN Raise(q, e)
        ELSE Decode(q, "list", r.data, "list")

GDPS_get_comment_page(page, r) ==
    ListOf(Call("GDPS.get_comment_page", None, page), AssertInt(page), r)

GDPSGetCommentPage ==
    /\ \E page \in Pages :
          \E r \in AnswersTo(GDPS_get_comment_page(page, NoAnswer), "list") :
              last' = GDPS_get_comment_page(page, r)
    /\ Frame

search_for_gdps(query, page, r) ==
    ListOf([Call("search_for_gdps", None, page) EXCEPT !.kw = <<query>>],
           IF AssertText(query) # "none" THEN AssertText(query) ELSE AssertInt(page),
           r)

SearchForGdps ==
    /\ \E query \in Texts, page \in Pages :
          \E r \in AnswersTo(search_for_gdps(query, page, NoAnswer), "list") :
              last' = search_for_gdps(query, page, r)
    /\ Frame

top(r) == ListOf(Call("top", None, 0), "none", r)

Top ==
    /\ \E r \in AnswersTo(top(NoAnswer), "list") : last' = top(r)
    /\ Frame

Next ==
    \/ Idle /\ Authorize
    \/ Idle /\ SessionInit
    \/ Idle /\ SessionRefresh
    \/ Idle /\ SessionClose
    \/ Idle /\ SessionGetInfo
    \/ Idle /\ SessionSessions
    \/ Idle /\ WithEnter
    \/ WithExit
    \/ Idle /\ Me
    \/ Idle /\ MyAccountGdpslist
    \/ Idle /\ MyAccountDelete
    \/ Idle /\ CommentUpdate
    \/ Idle /\ CommentDelete
    \/ Idle /\ CommentVote
    \/ Idle /\ CommentUnvote
    \/ Idle /\ GDPSCreateComment
    \/ Idle /\ GDPSDelete
    \/ Idle /\ GDPSVote
    \/ Idle /\ GDPSUnvote
    \/ Idle /\ MyAccountUpdate
    \/ Idle /\ GDPSUpdate
    \/ Idle /\ CreateGdps
    \/ Idle /\ GetAccount
    \/ Idle /\ GetGdps
    \/ Idle /\ GDPSGetComment
    \/ Idle /\ GDPSGetCommentPage
    \/ Idle /\ SearchForGdps
    \/ Idle /\ Top
    \/ Resume

Spec == Init /\ [][Next]_vars

(***************************************************************************)
(* _raise_for_errors on its own: any response status, any tuple exc_of of  *)
(* exempted codes.  The call record holds the two inputs, then the kind    *)
(* raised.                                                                 *)
(***************************************************************************)
MapperStatuses == 100..599

MapperExemptions == SUBSET {400, 401, 403, 404, 409}

MapperInit ==
    /\ session = [s \in SessionIds |-> NoSession]
    /\ _authorization = None
    /\ srv = [s \in SessionIds |-> [open |-> FALSE, token |-> None, refresh |-> None]]
    /\ nextToken = 1
    /\ withSess = None
    /\ lastInit = None
    /\ last \in {[op |-> "response", status |-> st, exc_of |-> e, exc |-> "none"] :
                   st \in MapperStatuses, e \in MapperExemptions}

MapperApply ==
    /\ last.op = "response"
    /\ last' = [last EXCEPT !.op = "_raise_for_errors",
                            !.exc = _raise_for_errors(last.status, last.exc_of)]
    /\ UNCHANGED <<session, _authorization, srv, nextToken, withSess, lastInit>>

MapperNext == MapperApply

SpecMapper == MapperInit /\ [][MapperNext]_vars
(***************************************************************************)
(* The operations documented as "Requires authorization".                  *)
(***************************************************************************)
AuthenticatedOps ==
    {"me", "create_gdps", "MyAccount.gdpslist", "MyAccount.update",
     "MyAccount.delete", "GDPS.update", "GDPS.delete", "GDPS.vote",
     "GDPS.unvote", "GDPS.create_comment", "Comment.update", "Comment.delete",
     "Comment.vote", "Comment.unvote"}

PagedOps ==
    {"sessions", "MyAccount.gdpslist", "GDPS.get_comment_page", "search_for_gdps"}

VoteOps == {"GDPS.vote", "Comment.vote"}

FetchOps == {"get_account", "get_gdps", "GDPS.get_comment"}

ArgumentErrors == {"AssertionError", "ValueError", "StopIteration"}

(***************************************************************************)
(* C1: once the active session has been closed (the server deleted it and  *)
(* answers 401 to its token), every authenticated operation that reaches   *)
(* the server fails with InvalidToken.                                     *)
(***************************************************************************)
C1_ClosedSessionRaisesInvalidToken ==
    (/\ last.op \in AuthenticatedOps
     /\ last.sent
     /\ last.auth # None
     /\ Closed(last.auth))
    => last.exc = "InvalidToken"

(***************************************************************************)
(* C2: a refresh() of a session whose close() has succeeded fails with     *)
(* InvalidToken and leaves the session's token as it was.                  *)
(***************************************************************************)
C2_RefreshAfterCloseFails ==
    [][\A s \in SessionIds :
         (Idle /\ Closed(s) /\ last'.op = "refresh" /\ last'.sess = s)
         => (last'.exc = "InvalidToken" /\ session'[s].token = session[s].token)]_vars

C2_Witness ==
    /\ last.op = "refresh"
    /\ Closed(last.sess)
    /\ last.sent
    /\ last.status = 401
    /\ last.exc = "InvalidToken"

(***************************************************************************)
(* C3: a paginated operation called with page <= 0 fails locally: it       *)
(* raises and issues no request.                                           *)
(***************************************************************************)
C3_NonPositivePageFailsLocally ==
    (last.op \in PagedOps /\ last.arg <= 0)
    => (~last.sent /\ last.exc # "none")

(***************************************************************************)
(* C4: GDPS.vote and Comment.vote called with a vote_type outside {1, 2}   *)
(* fail locally: they raise and issue no request.                          *)
(***************************************************************************)
C4_VoteTypeOutsideFailsLocally ==
    (last.op \in VoteOps /\ last.arg \notin {1, 2})
    => (~last.sent /\ last.exc # "none")

(***************************************************************************)
(* The "not found" result of a fetch-by-id: it returns None.               *)
(***************************************************************************)
NotFoundResult == last.exc = "none" /\ last.ret = "None"

(***************************************************************************)
(* C5: for a positive id, a fetch-by-id returns an object when the server  *)
(* answers success with a data object, and any failure status other than   *)
(* 404 gives an outcome other than the "not found" result (None returned). *)
(***************************************************************************)

C5_FetchDistinguishesNotFound ==
    (last.op \in FetchOps /\ last.arg > 0 /\ last.sent)
    => /\ (last.status < 400 /\ last.data = "dict")
          => (last.exc = "none" /\ last.ret \in {"Account", "GDPS", "Comment"})
       /\ (last.status >= 400 /\ last.status # 404) => ~NotFoundResult

(***************************************************************************)
(* C6: while no session has been published (_authorization is None), every *)
(* operation documented as requiring authorization, Comment.update         *)
(* included, raises and issues no request.                                 *)
(***************************************************************************)
C6_NoSessionFailsBeforeRequest ==
    (last.op \in AuthenticatedOps /\ last.auth = None)
    => (~last.sent /\ last.exc # "none")

C6_Witness ==
    /\ last.op = "Comment.update"
    /\ last.kw = <<"s">>
    /\ \E s \in SessionIds : Exists(s)
    /\ _authorization = None
    /\ ~last.sent
    /\ last.exc = "AttributeError"

(***************************************************************************)
(* C7: authorize() leaves the active-session pointer as it was; init() and *)
(* with-entry set it to their receiver; and with a session published, an   *)
(* authenticated operation is not stopped by the session check: it either  *)
(* fails on its arguments or sends its request, and the request carries    *)
(* the token the active session holds at that moment.                      *)
(***************************************************************************)
C7_InitPublishesTokenIsSent ==
    /\ last.op = "authorize" => _authorization = last.auth
    /\ last.op \in {"init", "__enter__"} => _authorization = last.sess
    /\ (last.op \in AuthenticatedOps /\ last.auth # None)
       => /\ ~last.sent => last.exc \in ArgumentErrors
          /\ last.sent => /\ last.bearer # None
                          /\ last.bearer = session[last.auth].token
                          /\ last.auth = _authorization

C7_Witness ==
    /\ last.op = "GDPS.create_comment"
    /\ last.sent
    /\ last.exc = "none"
    /\ last.bearer = session[_authorization].token
    /\ last.bearer # session[_authorization].token_expiration
    /\ \E s \in SessionIds : Exists(s) /\ s # _authorization

(***************************************************************************)
(* C8: a successful refresh() of session S while another session A is the  *)
(* active one leaves the active-session pointer at A.                      *)
(***************************************************************************)
C8_RefreshKeepsOtherActive ==
    (/\ last.op = "refresh"
     /\ last.exc = "none"
     /\ last.data = "dict"
     /\ last.auth \notin {None, last.sess})
    => _authorization = last.auth

(***************************************************************************)
(* C9: entering the with-block publishes the session; a normal exit calls  *)
(* close() exactly once; an exit by an exception calls close() not at all, *)
(* sends nothing, and the same exception propagates.                       *)
(***************************************************************************)
C9_WithBlockClosesOnNormalExitOnly ==
    /\ last.op = "__enter__" => (_authorization = last.sess /\ withSess = last.sess)
    /\ (last.op = "__exit__" /\ last.exc_type = "none")
       => (last.closes = 1 /\ last.sent)
    /\ (last.op = "__exit__" /\ last.exc_type # "none")
       => (last.closes = 0 /\ ~last.sent /\ last.exc = last.exc_type)

C9_Witness ==
    /\ last.op = "__exit__"
    /\ last.exc_type = "OutOfRateLimits"
    /\ last.exc = "OutOfRateLimits"
    /\ last.closes = 0
    /\ srv[last.sess].open

(***************************************************************************)
(* C10: the active session is a single pointer, and it always names the    *)
(* receiver of the latest init() call (none before the first).             *)
(***************************************************************************)
C10_LastInitWins ==
    /\ Cardinality({s \in SessionIds : _authorization = s}) <= 1
    /\ _authorization = lastInit

C10_Witness ==
    /\ last.op = "init"
    /\ last.auth \notin {None, last.sess}
    /\ _authorization = last.sess
    /\ lastInit = last.sess

(***************************************************************************)
(* The mapping table as the specification gives it (status -> kind).       *)
(***************************************************************************)
TableKind(st) ==
    CASE st = 400 -> "BadRequest"
      [] st = 401 -> "NotInitialized"
      [] st = 404 -> "NotFound"
      [] st \in {406, 409} -> "NotAcceptable"
      [] st = 429 -> "OutOfRateLimits"
      [] st = 500 -> "InternalServerError"
      [] OTHER -> "none"

(***************************************************************************)
(* C11: for every status and every exemption set, _raise_for_errors raises *)
(* the table's kind when the status is in the table and not exempted, and  *)
(* returns without raising for every other status.                         *)
(***************************************************************************)
C11_MapperFollowsTable ==
    last.op = "_raise_for_errors"
    => last.exc = IF TableKind(last.status) # "none" /\ last.status \notin last.exc_of
                  THEN TableKind(last.status)
                  ELSE "none"

C11_Witness ==
    /\ last.op = "_raise_for_errors"
    /\ last.status = 409
    /\ last.exc_of = {401, 404}
    /\ last.exc = "NotAcceptable"

(***************************************************************************)
(* C12: authorize fails with AuthorizationError on 403 and with the        *)
(* server-error kind on every 5xx, and returns a Session only when the     *)
(* response is not an error.                                               *)
(***************************************************************************)
C12_AuthorizeErrorKinds ==
    (last.op = "authorize" /\ last.sent)
    => /\ last.status = 403 => last.exc = "AuthorizationError"
       /\ last.status >= 500 => last.exc = "InternalServerError"
       /\ last.ret = "Session" => last.status < 400

(***************************************************************************)
(* C13: a 429 or 5xx answer to the request of any operation surfaces as an *)
(* exception, never as a normal return.                                    *)
(***************************************************************************)
C13_TransientFailuresRaise ==
    (last.sent /\ (last.status = 429 \/ last.status >= 500))
    => last.exc # "none"

(***************************************************************************)
(* C14: close() on a session that is already closed (the server answers    *)
(* 401 to its token) fails with InvalidToken.                              *)
(***************************************************************************)
C14_CloseTwiceRaisesInvalidToken ==
    [][\A s \in SessionIds :
         (Idle /\ Closed(s) /\ last'.op = "close" /\ last'.sess = s)
         => last'.exc = "InvalidToken"]_vars

C14_Witness ==
    /\ last.op = "close"
    /\ Closed(last.sess)
    /\ last.sent
    /\ last.status = 401
    /\ last.exc = "InvalidToken"

(***************************************************************************)
(* C15: Session.info and Session.sessions fail with NotFound on 404, never *)
(* return objects built from an error response, and report a 401 as an     *)
(* invalid token.                                                          *)
(***************************************************************************)
C15_AccessorsErrorKinds ==
    (last.op \in {"info", "sessions"} /\ last.sent)
    => /\ last.status = 404 => last.exc = "NotFound"
       /\ last.status >= 400 => last.exc # "none"
       /\ last.status = 401 => last.exc = "InvalidToken"

(***************************************************************************)
(* C16: a 403 becomes the call site's kind (AccountDeletionError for       *)
(* MyAccount.delete, AuthorizationError for authorize, NotFound for the    *)
(* two unvote operations), and the codes a call site exempts from the      *)
(* mapper are raised as its own kind: 401 as InvalidToken in close,        *)
(* refresh and info, 404 as NotFound in info.                              *)
(***************************************************************************)
C16_CallSiteKinds ==
    last.sent
    => /\ (last.op = "MyAccount.delete" /\ last.status = 403)
          => last.exc = "AccountDeletionError"
       /\ (last.op = "authorize" /\ last.status = 403)
          => last.exc = "AuthorizationError"
       /\ (last.op \in {"GDPS.unvote", "Comment.unvote"} /\ last.status = 403)
          => last.exc = "NotFound"
       /\ (last.op \in {"close", "__exit__", "refresh", "info"} /\ last.status = 401)
          => last.exc = "InvalidToken"
       /\ (last.op = "info" /\ last.status = 404)
          => last.exc = "NotFound"

C16_Witness ==
    /\ last.op = "MyAccount.delete"
    /\ last.sent
    /\ last.status = 403
    /\ last.exc = "AccountDeletionError"

(***************************************************************************)
(* The body an update should send: the supplied fields, each with the      *)
(* value supplied, in the order of the arguments.                          *)
(***************************************************************************)
RECURSIVE SuppliedFrom(_, _, _)
SuppliedFrom(keys, kw, i) ==
    IF i > Len(kw)
    THEN <<>>
    ELSE (IF kw[i] # "None" THEN <<<<keys[i], kw[i]>>>> ELSE <<>>)
         \o SuppliedFrom(keys, kw, i + 1)

UpdateFields(op) ==
    IF op = "MyAccount.update"
    THEN <<"email", "password", "avatarUrl", "username">>
    ELSE GDPSUpdateKeys

(***************************************************************************)
(* C17: with a session published, MyAccount.update and GDPS.update called  *)
(* with any combination of omitted and non-empty arguments do not fail     *)
(* locally, and the body sent holds exactly the supplied fields with the   *)
(* supplied values.                                                        *)
(***************************************************************************)
C17_UpdateSendsSuppliedFields ==
    (/\ last.op \in {"MyAccount.update", "GDPS.update"}
     /\ last.auth # None
     /\ \A i \in DOMAIN last.kw : last.kw[i] \in {"None", "s"})
    => /\ last.sent
       /\ last.body = SuppliedFrom(UpdateFields(last.op), last.kw, 1)

(***************************************************************************)
(* The operations wrapped by _auth_required.                               *)
(***************************************************************************)
GuardedOps == AuthenticatedOps \ {"Comment.update"}

(***************************************************************************)
(* C18: a guarded operation called while the active-session pointer is     *)
(* unset raises NotInitialized.                                            *)
(***************************************************************************)
C18_GuardRaisesNotInitialized ==
    (last.op \in GuardedOps /\ last.auth = None)
    => last.exc = "NotInitialized"

(***************************************************************************)
(* C19: close() (also when __exit__ calls it) changes neither a session's  *)
(* fields nor the active-session pointer, whatever the server answers; and *)
(* a guarded operation called with valid arguments while the session the   *)
(* pointer refers to is closed still issues its request, carrying that     *)
(* session's token.                                                        *)
(***************************************************************************)
C19_CloseKeepsLocalState ==
    [][/\ (Idle /\ last'.closes = 1)
          => (session' = session /\ _authorization' = _authorization)
       /\ (/\ Idle
           /\ last'.op \in GuardedOps
           /\ _authorization # None
           /\ Closed(_authorization)
           /\ last'.exc \notin ArgumentErrors)
          => (/\ last'.sent
              /\ last'.bearer = session[_authorization].token)]_vars

C19_Witness ==
    /\ last.op \in GuardedOps
    /\ last.auth # None
    /\ Closed(last.auth)
    /\ last.sent
    /\ last.bearer = session[last.auth].token
    /\ last.status = 401

(***************************************************************************)
(* C20: a refresh() whose answer carries a session payload replaces the    *)
(* session's token by the one issued and changes no other field of any     *)
(* session; the session is still open and its new token is the one the     *)
(* server accepts.                                                         *)
(***************************************************************************)
C20_RefreshReplacesOnlyToken ==
    [][\A s \in SessionIds :
         (Idle /\ last'.op = "refresh" /\ last'.sess = s /\ last'.data = "dict")
         => (/\ session' = [session EXCEPT ![s].token = nextToken]
             /\ session'[s].token # session[s].token
             /\ srv'[s].open
             /\ srv'[s].token = session'[s].token)]_vars

C20_Witness ==
    /\ last.op = "refresh"
    /\ last.data = "dict"
    /\ last.exc = "none"
    /\ srv[last.sess].open
    /\ session[last.sess].token = srv[last.sess].token

(***************************************************************************)
(* C21: a refresh() whose answer carries no session payload, whatever its  *)
(* status, changes no field of any session and not the active-session      *)
(* pointer; when the status is 401 it raises InvalidToken, and when it is  *)
(* another status of the mapping table it raises the table's kind.         *)
(***************************************************************************)
C21_FailedRefreshChangesNothing ==
    [][\A s \in SessionIds :
         (Idle /\ last'.op = "refresh" /\ last'.sess = s /\ last'.data # "dict")
         => (/\ session' = session
             /\ _authorization' = _authorization
             /\ lastInit' = lastInit
             /\ last'.status = 401 => last'.exc = "InvalidToken"
             /\ (last'.status # 401 /\ TableKind(last'.status) # "none")
                => last'.exc = TableKind(last'.status))]_vars

C21_Witness ==
    /\ last.op = "refresh"
    /\ last.sent
    /\ last.data = "none"
    /\ last.status = 429
    /\ last.exc = "OutOfRateLimits"
    /\ _authorization # None
    /\ srv[last.sess].open
    /\ session[last.sess].token = srv[last.sess].token

(***************************************************************************)
(* The methods of a session that authenticate with the receiver.           *)
(***************************************************************************)
ReceiverOps == {"info", "sessions", "close"}

(***************************************************************************)
(* C22: info, sessions and close send the receiver's token, whichever      *)
(* session is the active one and also when none is; they fail before the   *)
(* request only on an invalid argument; and they leave the active-session  *)
(* pointer where it was.                                                   *)
(***************************************************************************)
C22_ReceiverMethodsUseOwnToken ==
    [][\A s \in SessionIds :
         (Idle /\ last'.op \in ReceiverOps /\ last'.sess = s)
         => (/\ last'.sent => last'.bearer = session[s].token
             /\ last'.exc \notin ArgumentErrors => last'.sent
             /\ _authorization' = _authorization)]_vars

C22_Witness ==
    /\ last.op = "close"
    /\ last.sent
    /\ last.exc = "none"
    /\ last.auth # None
    /\ last.auth # last.sess
    /\ last.bearer = session[last.sess].token
    /\ last.bearer # session[last.auth].token
    /\ _authorization = last.auth

====
